---- MODULE Spec2Model ----
(***************************************************************************)
(* Model of ghostgres: the PostgresCluster lifecycle (Init, Start, Wait,   *)
(* Stop, Clone) of ghostgres.go and the template store (Freeze,            *)
(* FromTemplate, Delete), over an abstract filesystem and a set of         *)
(* spawned postgres processes.  Calls are serialized: every action is one  *)
(* whole call of an exported function, or one step of the environment      *)
(* (a spawned process exiting or writing to its data directory).           *)
(*                                                                         *)
(* Every call is a function of the state it is made in: an operator        *)
(* <Name>R(args, choice) gives what the call returns and the state it      *)
(* leaves, for each outcome `choice` of the external programs it runs, and *)
(* the action <Name>(args) moves the state to that result.                 *)
(***************************************************************************)
EXTENDS Integers, Sequences, FiniteSets, TLC

\* ------------------------------------------------------------------ bounds
MaxDesc == 3      \* descriptors that exist over a run (1 is built by the caller)
MaxDirs == 2      \* caller-chosen directories (DataDir of descriptor 1, clone dests)
MaxTmp  == 1      \* temporary directories ioutil.TempDir hands out
MaxProc == 2      \* processes spawned over a run
MaxLive == 2      \* processes not yet waited for at one time
MaxData == 2      \* distinct contents a data directory goes through
MaxOpts == 2      \* options in the Config of a descriptor

Descs    == 1..MaxDesc
UserDirs == 1..MaxDirs
Tmps     == 1..MaxTmp
Pids     == 1..MaxProc
TplNames == {"mytpl"}             \* the (dir, name) a template is asked for by

\* ------------------------------------------------------------------ versions
\* The decimal digits.
Digits == <<"0", "1", "2", "3", "4", "5", "6", "7", "8", "9">>
IsDigit(c) == \E i \in DOMAIN Digits : Digits[i] = c

\* What `postgres --version` can print, as sequences of characters.
Outputs ==
  { <<"p", "g", " ", "9", ".", "3", ".", "5">>,
    <<"9", ".", "3", ".", "5", ".", "1">>,
    <<"p", "g", " ", "9", ".", "4", ".", "1", "0", "b">>,
    <<"p", "g", " ", "1", "0", ".", "1">> }

\* The end of the longest run of digits of s that starts at i (i - 1: none).
RunEnd(s, i) ==
  CHOOSE j \in (i - 1)..Len(s) :
    /\ \A k \in i..j : IsDigit(s[k])
    /\ j = Len(s) \/ ~IsDigit(s[j + 1])

\* The end of the match of [0-9]+\.[0-9]+\.[0-9]+ in s that starts at i (0: none).
MatchEnd(s, i) ==
  LET a == RunEnd(s, i)
  IN IF a < i \/ a + 1 > Len(s) \/ s[a + 1] # "." THEN 0
     ELSE LET b == RunEnd(s, a + 2)
          IN IF b < a + 2 \/ b + 1 > Len(s) \/ s[b + 1] # "." THEN 0
             ELSE LET c == RunEnd(s, b + 2)
                  IN IF c < b + 2 THEN 0 ELSE c

\* regexp.MustCompile("[0-9]+\\.[0-9]+\\.[0-9]+").FindString(s): the leftmost
\* match, "" when there is none.
FindString(s) ==
  IF \E i \in DOMAIN s : MatchEnd(s, i) # 0
    THEN LET i == CHOOSE i \in DOMAIN s :
                    MatchEnd(s, i) # 0 /\ \A j \in 1..(i - 1) : MatchEnd(s, j) = 0
         IN SubSeq(s, i, MatchEnd(s, i))
  ELSE <<>>

\* FindString of each output, computed once.
Found == [o \in Outputs |-> FindString(o)]

\* The versions a template can be stored under, and the template identities
\* root/name/version there are.
Versions == {Found[o] : o \in Outputs} \ {<<>>}
NoTpl == [name |-> "", version |-> <<>>]
AllTplIds == {[name |-> n, version |-> v] : n \in TplNames, v \in Versions}

\* ------------------------------------------------------------------ paths
\* A data directory is named by a path: a caller-chosen directory, the "clone"
\* directory under a temporary directory, or the "data" directory of a template.
UserPath(i)  == [k |-> "user", n |-> i, t |-> NoTpl]
TmpClone(t)  == [k |-> "tmp",  n |-> t, t |-> NoTpl]
NoPath       == [k |-> "none", n |-> 0, t |-> NoTpl]
data(id)     == [k |-> "tpl",  n |-> 0, t |-> id]
Paths == {UserPath(i) : i \in UserDirs} \cup {TmpClone(t) : t \in Tmps}
           \cup {data(id) : id \in AllTplIds}

\* The content of a path: absent, or a directory with or without the file
\* postgresql.conf (conf) and the cluster files initdb and postgres write (data).
\* conf tells whether postgresql.conf is missing ("none"), created and not
\* written ("partial") or written ("written"), and text is its content.
Absent   == [exists |-> FALSE, conf |-> "none", data |-> 0, text |-> <<>>]
EmptyDir == [exists |-> TRUE,  conf |-> "none", data |-> 0, text |-> <<>>]

\* ------------------------------------------------------------------ errors
NoErr             == "nil"
ErrAlreadyInit    == "postgres cluster already initialized"
ErrNotInit        == "postgres cluster not initialized"
ErrAlreadyRunning == "postgres cluster already running"
ErrNotRunning     == "postgres cluster not running"
ErrNotStarted     == "server has not been started"
ErrTimeout        == "timed out waiting for the socket file"
ErrCloneRunning   == "cannot clone a running cluster"
ErrCloneUninit    == "cluster must be initialized before cloning"
ErrCloneExists    == "cannot clone into an existing directory"
ErrFreezeRunning  == "cannot create a template from a running cluster"
ErrNoSuchFile     == "no such file or directory"
ErrSpawn          == "fork/exec: no such file or directory"
ErrPwFile         == "write postgres_pass failed"
ErrInitdb         == "initdb failed"
ErrWriteConf      == "write postgresql.conf failed"
ErrCopy           == "cp failed"
ErrWriteJson      == "write ghostgres.json failed"
ErrExit1          == "exit status 1"
ErrSigInt         == "signal: interrupt"
ErrSigTerm        == "signal: terminated"
ErrAtoi           == "strconv.Atoi: parsing: invalid syntax"
ErrVersion        == "failed to parse postgres version"
ErrExec           == "exec: postgres: executable file not found"
ErrWaitCalled     == "exec: Wait was already called"
ErrNoChild        == "wait: no child processes"
ErrNilDeref       == "invalid memory address or nil pointer dereference"

\* ------------------------------------------------------------------ state
VARIABLES
  desc,      \* desc[d]: the PostgresCluster d (used, DataDir, Config, proc, onStop)
  fs,        \* fs[p]: the content of path p
  tmpRoot,   \* the temporary directories (parents of tmp/clone) that exist
  nextTmp,   \* the temporary directories handed out so far
  tplRoot,   \* the template directories root/name/version that exist
  tplJson,   \* tplJson[id]: the descriptor file ghostgres.json of template id
  procs,     \* procs[pid]: a spawned postgres process
  from,      \* history: from[d] is the descriptor Clone made d from (0: none)
  probe,     \* what running `postgres --version` gives (ok: it ran; out: its output)
  conc       \* a Wait and a Stop in progress at once in two goroutines

vars == <<desc, fs, tmpRoot, nextTmp, tplRoot, tplJson, procs, from, probe, conc>>

\* type PostgresCluster: proc = 0 is a nil *exec.Cmd, onStop = 0 is a nil hook and
\* onStop = t is the closure func() { os.RemoveAll(tempDir) } over temporary
\* directory t.
NoDesc == [used |-> FALSE, DataDir |-> NoPath, Config |-> <<>>, proc |-> 0, onStop |-> 0]
NoJson == [present |-> FALSE, DataDir |-> NoPath, Config |-> <<>>]

\* A spawned process: sock is the port of the socket file .s.PGSQL.<port> it
\* has created in its data directory (0: none).
NoProc == [state |-> "none", outcome |-> "none", owner |-> 0, dir |-> NoPath, sock |-> 0]

\* The state a call is made in, as the result of a call that returns nil and
\* does nothing: what a call returns (err, new: the descriptor returned) and did
\* (spawned: the process started, signalled: SIGTERM was sent, hook: onStop was
\* invoked, initdb: initdb was run, conf: postgresql.conf was written).
Cur ==
  [desc |-> desc, fs |-> fs, tmpRoot |-> tmpRoot, nextTmp |-> nextTmp,
   tplRoot |-> tplRoot, tplJson |-> tplJson, procs |-> procs,
   from |-> from,
   err |-> NoErr, new |-> 0, spawned |-> 0, signalled |-> FALSE, hook |-> FALSE,
   initdb |-> FALSE, conf |-> FALSE]

\* A call that fails with e and does nothing.
Fail(e) == [Cur EXCEPT !.err = e]

\* The descriptors, files and processes become those of the result r.
Moves(r) ==
  /\ desc' = r.desc
  /\ fs' = r.fs
  /\ tmpRoot' = r.tmpRoot
  /\ nextTmp' = r.nextTmp
  /\ tplRoot' = r.tplRoot
  /\ tplJson' = r.tplJson
  /\ procs' = r.procs
  /\ from' = r.from

\* The state moves to the result r of a call.
Apply(r) == Moves(r) /\ UNCHANGED <<probe, conc>>

\* What a result leaves of the state.
StateOf(r) == <<r.desc, r.fs, r.tmpRoot, r.nextTmp, r.tplRoot, r.tplJson, r.procs>>

\* A result that leaves every descriptor, file and process as it was.
Untouched(r) == StateOf(r) = StateOf(Cur)

\* ------------------------------------------------------------------ helpers
\* func (p *PostgresCluster) Initialized(): postgresql.conf exists under DataDir.
Initialized(p) == fs[p.DataDir].exists /\ fs[p.DataDir].conf # "none"

\* Mutant of Running: the process of the handle is looked at.
RunningAlive(p) == p.proc # 0 /\ procs[p.proc].state = "alive"

\* func (p *PostgresCluster) Running(): p.proc != nil.
Running(p) == p.proc # 0

\* surulio.Exists(dest)
Exists(p) == fs[p].exists

\* The descriptors in use and the next free one.
Used == {d \in Descs : desc[d].used}
NextDesc == Cardinality(Used) + 1

\* The processes spawned so far, those not yet waited for, and the next one.
Spawned == {p \in Pids : procs[p].state # "none"}
Live == {p \in Pids : procs[p].state \in {"alive", "exited"}}
NextPid == Cardinality(Spawned) + 1

\* ------------------------------------------------------------------ Config
\* type ConfigOpt struct { Key, Value, Comment string }. A Value is held as the
\* sequence of its characters, a Key and a Comment as strings.
ConfigOpt(key, value, comment) == [Key |-> key, Value |-> value, Comment |-> comment]

\* The Config of testCluster, with port 80 for the unused port.
TestConfig ==
  <<ConfigOpt("port", <<"8", "0">>, "Different port for testing local sockets"),
    ConfigOpt("fsync", <<"o", "f", "f">>, "")>>

\* The options a Config is made of: ports that parse, ports that do not (TestBadPort,
\* an empty value), and options that are no port.
Opts ==
  {ConfigOpt("port", <<"8", "0">>, "Different port for testing local sockets"),
   ConfigOpt("port", <<"7">>, ""),
   ConfigOpt("port", <<"b", "a", "d">>, ""),
   ConfigOpt("port", <<>>, "no port"),
   ConfigOpt("fsync", <<"o", "f", "f">>, ""),
   ConfigOpt("autovacuum", <<"o", "f", "f">>, "Don't run autovacuum")}

RECURSIVE SeqsUpTo(_, _)
\* The sequences over S of length n or less.
SeqsUpTo(S, n) ==
  IF n = 0 THEN {<<>>}
  ELSE SeqsUpTo(S, n - 1) \cup {Append(s, x) : s \in SeqsUpTo(S, n - 1), x \in S}

Configs == SeqsUpTo(Opts, MaxOpts)

\* The value of a decimal digit.
DigitVal(c) == (CHOOSE i \in DOMAIN Digits : Digits[i] = c) - 1

RECURSIVE ParseDigits(_)
\* The number a sequence of digits is in base 10.
ParseDigits(s) ==
  IF s = <<>> THEN 0
  ELSE ParseDigits(SubSeq(s, 1, Len(s) - 1)) * 10 + DigitVal(s[Len(s)])

\* strconv.Atoi(s): an optional sign, then one digit or more; (0, error) for
\* anything else.
Atoi(s) ==
  LET signed == s # <<>> /\ s[1] \in {"+", "-"}
      digits == IF signed THEN Tail(s) ELSE s
  IN IF digits = <<>> \/ \E i \in DOMAIN digits : ~IsDigit(digits[i])
       THEN [val |-> 0, err |-> ErrAtoi]
     ELSE [val |-> IF signed /\ s[1] = "-" THEN 0 - ParseDigits(digits)
                   ELSE ParseDigits(digits),
           err |-> NoErr]

\* port := "5432"
DefaultPort == <<"5", "4", "3", "2">>

\* The loop of Port: the Value of the first option keyed "port", or the default.
PortValue(cfg) ==
  IF \E i \in DOMAIN cfg : cfg[i].Key = "port"
    THEN cfg[CHOOSE i \in DOMAIN cfg :
               cfg[i].Key = "port" /\ \A j \in 1..(i - 1) : cfg[j].Key # "port"].Value
  ELSE DefaultPort

\* Mutant of Port: the last option keyed "port" is taken.
PortOfLast(p) ==
  LET cfg == p.Config
  IN Atoi(IF \E i \in DOMAIN cfg : cfg[i].Key = "port"
            THEN cfg[CHOOSE i \in DOMAIN cfg :
                       cfg[i].Key = "port" /\ \A j \in (i + 1)..Len(cfg) : cfg[j].Key # "port"].Value
          ELSE DefaultPort)

\* func (p *PostgresCluster) Port() (portVal int, err error)
Port(p) == Atoi(PortValue(p.Config))

\* The lines of postgresqlConfTemplate: the header, and for each option an empty
\* line and the line "Key = Value " with " # Comment " after it when the Comment
\* is not empty. A line is the sequence of its pieces.
Header == <<"# Auto Generated PostgreSQL Configuration">>

\* Mutant of OptLines: the comment is written whether it is empty or not.
OptLinesAlwaysComment(opt) ==
  << <<>>, <<opt.Key, " = ", opt.Value, " ", " # ", opt.Comment, " ">> >>

OptLines(opt) ==
  << <<>>,
     <<opt.Key, " = ", opt.Value, " ">>
       \o (IF opt.Comment # "" THEN <<" # ", opt.Comment, " ">> ELSE <<>>) >>

RECURSIVE Render(_)
\* postgresqlConfTemplate executed on the Config.
Render(cfg) ==
  IF cfg = <<>> THEN <<Header>>
  ELSE Render(SubSeq(cfg, 1, Len(cfg) - 1)) \o OptLines(cfg[Len(cfg)])

\* The port postgres takes from the lines of postgresql.conf: that of the last
\* port line, 5432 without one, and 0 when it is no port (postgres does not
\* start serving).
PgPort(text) ==
  LET ports == {i \in DOMAIN text : Len(text[i]) > 1 /\ text[i][1] = "port"}
  IN IF ports = {} THEN Atoi(DefaultPort).val
     ELSE LET last == CHOOSE i \in ports : \A j \in ports : j <= i
              a == Atoi(text[last][3])
          IN IF a.err = NoErr /\ a.val > 0 THEN a.val ELSE 0

\* ------------------------------------------------------------------ initial state
\* The postgres that is installed prints its version, 9.3.5.
DefaultProbe == [ok |-> TRUE, out |-> <<"p", "g", " ", "9", ".", "3", ".", "5">>]

\* No goroutine is in Wait or Stop: pc is where each one is, h the *exec.Cmd whose
\* Wait() it is in, err what its call returns; waits counts the calls of
\* p.proc.Wait() made, signalled tells that SIGTERM was sent, nilUse that a nil
\* p.proc was dereferenced, and overlap that Stop was called while Wait was in
\* progress.
NoCalls ==
  [d |-> 0, pc |-> [t \in {"W", "S"} |-> "idle"], h |-> [t \in {"W", "S"} |-> 0],
   err |-> [t \in {"W", "S"} |-> NoErr], waits |-> 0, signalled |-> FALSE,
   nilUse |-> FALSE, overlap |-> FALSE]

\* testCluster(c): one descriptor built by the caller over a fresh empty directory
\* (c.MkDir()); no other directory exists yet.
InitialWith(cfg) ==
  /\ desc = [d \in Descs |->
               IF d = 1 THEN [used |-> TRUE, DataDir |-> UserPath(1), Config |-> cfg,
                              proc |-> 0, onStop |-> 0]
               ELSE NoDesc]
  /\ fs = [p \in Paths |-> IF p = UserPath(1) THEN EmptyDir ELSE Absent]
  /\ tmpRoot = {}
  /\ nextTmp = 0
  /\ tplRoot = {}
  /\ tplJson = [id \in AllTplIds |-> NoJson]
  /\ procs = [p \in Pids |-> NoProc]
  /\ from = [d \in Descs |-> 0]
  /\ probe = DefaultProbe
  /\ conc = NoCalls

Initial == InitialWith(TestConfig)

\* The same with any Config.
InitialAnyConfig == \E cfg \in Configs : InitialWith(cfg)

\* ------------------------------------------------------------------ Init
\* How the steps of Init after the state check can end: all succeed ("ok"), the
\* password file cannot be written ("pwfile"), initdb fails ("initdb"), or
\* postgresql.conf cannot be written, before the file exists ("conf") or after
\* it was created ("partial").
InitOutcomes == {"ok", "pwfile", "initdb", "conf", "partial"}

\* initdb --pgdata dir: creates the directory (and its parents) and the cluster
\* files in it.
Initdb(r, dir) ==
  [r EXCEPT !.fs[dir] = [exists |-> TRUE, conf |-> "none", data |-> 1, text |-> <<>>],
            !.tmpRoot = IF dir.k = "tmp" THEN @ \cup {dir.n} ELSE @,
            !.tplRoot = IF dir.k = "tpl" THEN @ \cup {dir.t} ELSE @,
            !.initdb = TRUE]

\* surultpl.WriteFile(p.configFile(), postgresqlConfTemplate, p, 0600)
WriteConf(r, p) ==
  [r EXCEPT !.fs[p.DataDir].conf = "written",
            !.fs[p.DataDir].text = Render(p.Config),
            !.conf = TRUE]

\* The steps of Init after the state check. initdb refuses a directory that
\* holds files, and removes what it created when it fails.
InitBody(p, outcome) ==
  CASE outcome = "pwfile"  -> Fail(ErrPwFile)
    [] outcome = "initdb"  -> [Fail(ErrInitdb) EXCEPT !.initdb = TRUE]
    [] outcome = "conf"    -> [Initdb(Cur, p.DataDir) EXCEPT !.err = ErrWriteConf]
    [] outcome = "partial" -> [Initdb(Cur, p.DataDir) EXCEPT
                                 !.err = ErrWriteConf, !.fs[p.DataDir].conf = "partial"]
    [] outcome = "ok"      -> WriteConf(Initdb(Cur, p.DataDir), p)

\* initdb can succeed only in a directory that is empty or missing.
InitCan(p, outcome) ==
  outcome \in {"ok", "conf", "partial"} => fs[p.DataDir].data = 0

\* Mutant of InitR: Init without its state check.
InitRNoCheck(d, outcome) == InitBody(desc[d], outcome)

\* func (p *PostgresCluster) Init()
InitR(d, outcome) ==
  IF Initialized(desc[d]) THEN Fail(ErrAlreadyInit) ELSE InitBody(desc[d], outcome)

Init(d) ==
  /\ desc[d].used
  /\ \E outcome \in InitOutcomes :
       /\ InitCan(desc[d], outcome)
       /\ Apply(InitR(d, outcome))

\* Mutant of InitIfNeededR: Init is called whatever Initialized() says.
InitIfNeededAlways(d, outcome) == InitR(d, outcome)

\* func (p *PostgresCluster) InitIfNeeded()
InitIfNeededR(d, outcome) ==
  IF ~Initialized(desc[d]) THEN InitR(d, outcome) ELSE Cur

InitIfNeeded(d) ==
  /\ desc[d].used
  /\ \E outcome \in InitOutcomes :
       /\ InitCan(desc[d], outcome)
       /\ Apply(InitIfNeededR(d, outcome))

\* ------------------------------------------------------------------ Start
\* Mutant of StartErr: Start without its Running check.
StartErrNoRunningCheck(p) ==
  IF ~Initialized(p) THEN ErrNotInit ELSE NoErr

\* The two state checks of Start, in the order of the code.
StartErr(p) ==
  IF ~Initialized(p) THEN ErrNotInit
  ELSE IF Running(p) THEN ErrAlreadyRunning
  ELSE NoErr

\* proc := exec.Command(...); proc.Start(); p.proc = proc
Spawn(d) ==
  [Cur EXCEPT !.procs[NextPid] = [state |-> "alive", outcome |-> "none",
                                  owner |-> d, dir |-> desc[d].DataDir, sock |-> 0],
              !.desc[d].proc = NextPid,
              !.spawned = NextPid]

\* Mutant of StartR: the error of proc.Start() is dropped.
StartRDropsError(d, ok) ==
  IF StartErr(desc[d]) # NoErr THEN Fail(StartErr(desc[d]))
  ELSE IF ok THEN Spawn(d)
  ELSE Cur

\* func (p *PostgresCluster) Start(): proc.Start() succeeds (ok) or fails (a
\* missing binary).
StartR(d, ok) ==
  IF StartErr(desc[d]) # NoErr THEN Fail(StartErr(desc[d]))
  ELSE IF ok THEN Spawn(d)
  ELSE Fail(ErrSpawn)

\* Within the bounds on processes.
StartCan(d, ok) ==
  StartErr(desc[d]) = NoErr /\ ok => NextPid <= MaxProc /\ Cardinality(Live) < MaxLive

Start(d) ==
  /\ desc[d].used
  /\ \E ok \in BOOLEAN :
       /\ StartCan(d, ok)
       /\ Apply(StartR(d, ok))

\* ------------------------------------------------------------------ WaitTillServing
\* How the poll for the socket file ends: the file is found, or the timeout
\* elapses.
ServingOutcomes == {"serving", "timeout"}

\* func (p *PostgresCluster) SocketFile(): the file .s.PGSQL.<port> in the
\* socket directory exists (the file of port Port(), made by a process that
\* lives in DataDir).
SocketFileExists(p) ==
  /\ Exists(p.DataDir)
  /\ \E pid \in Pids :
       /\ procs[pid].state = "alive"
       /\ procs[pid].dir = p.DataDir
       /\ procs[pid].sock = Port(p).val

\* Mutant of WaitTillServingR: the poll without the Running check.
WaitTillServingNoCheck(d, o) ==
  IF Port(desc[d]).err # NoErr THEN Fail(Port(desc[d]).err)
  ELSE IF o = "serving" THEN Cur
  ELSE Fail(ErrTimeout)

\* Mutant of WaitTillServingR: a Port() that fails is taken for its value 0.
WaitTillServingIgnoresPortErr(d, o) ==
  IF ~Running(desc[d]) THEN Fail(ErrNotStarted)
  ELSE IF o = "serving" THEN Cur
  ELSE Fail(ErrTimeout)

\* func (p *PostgresCluster) WaitTillServing(timeout): the state check, the
\* name of the socket file (which fails when Port() fails), and the poll, which
\* finds the file ("serving") or not ("timeout").
WaitTillServingR(d, o) ==
  IF ~Running(desc[d]) THEN Fail(ErrNotStarted)
  ELSE IF Port(desc[d]).err # NoErr THEN Fail(Port(desc[d]).err)
  ELSE IF o = "serving" THEN Cur
  ELSE Fail(ErrTimeout)

\* The poll finds the socket file exactly when it exists.
WaitTillServingCan(d, o) ==
  Running(desc[d]) /\ Port(desc[d]).err = NoErr =>
    (o = "serving" <=> SocketFileExists(desc[d]))

WaitTillServing(d) ==
  /\ desc[d].used
  /\ \E o \in ServingOutcomes :
       /\ WaitTillServingCan(d, o)
       /\ Apply(WaitTillServingR(d, o))

\* ------------------------------------------------------------------ Wait, Stop
\* Mutant of WaitErr: the error of p.proc.Wait() is returned as it is.
WaitErrRaw(outcome) ==
  CASE outcome = "exit0"   -> NoErr
    [] outcome = "sigterm" -> ErrSigTerm
    [] outcome = "exit1"   -> ErrExit1
    [] outcome = "sigint"  -> ErrSigInt

\* The error Wait returns for the way the process ended: "signal: terminated"
\* is turned into nil.
WaitErr(outcome) ==
  CASE outcome = "exit0"   -> NoErr
    [] outcome = "sigterm" -> NoErr
    [] outcome = "exit1"   -> ErrExit1
    [] outcome = "sigint"  -> ErrSigInt

\* Mutant of Reap: the process is waited for and the handle is kept.
ReapKeepsHandle(r, d, o) ==
  [r EXCEPT !.procs[r.desc[d].proc] = [NoProc EXCEPT !.state = "reaped", !.owner = d],
            !.err = WaitErr(o)]

\* p.proc.Wait() for a process that ended with outcome o, then the deferred
\* p.proc = nil: the process is reaped and the handle cleared.
Reap(r, d, o) ==
  [r EXCEPT !.procs[r.desc[d].proc] = [NoProc EXCEPT !.state = "reaped", !.owner = d],
            !.desc[d].proc = 0,
            !.err = WaitErr(o)]

\* func (p *PostgresCluster) Wait()
WaitR(d) ==
  IF ~Running(desc[d]) THEN Fail(ErrNotRunning)
  ELSE Reap(Cur, d, procs[desc[d].proc].outcome)

\* p.proc.Wait() returns once the process has ended.
WaitCan(d) == Running(desc[d]) => procs[desc[d].proc].state = "exited"

Wait(d) ==
  /\ desc[d].used
  /\ WaitCan(d)
  /\ Apply(WaitR(d))

\* How a process that is sent SIGTERM ends: postgres shuts down and exits 0, or is
\* killed by the signal before it has installed its handler; a process that has
\* already ended keeps its outcome.
AfterSigTerm(pr) ==
  IF pr.state = "alive" THEN {"exit0", "sigterm"} ELSE {pr.outcome}

\* os.RemoveAll(tempDir): the temporary directory and the clone under it.
RemoveAllTmp(r, t) ==
  [r EXCEPT !.fs[TmpClone(t)] = Absent, !.tmpRoot = @ \ {t}]

\* The deferred func of Stop: p.onStop() when p.onStop != nil.
RunHook(r, p) ==
  IF p.onStop # 0 THEN [RemoveAllTmp(r, p.onStop) EXCEPT !.hook = TRUE] ELSE r

\* The body of Stop: a cluster that is not Running returns at once; a Running
\* one is sent SIGTERM and waited for (the process ends with outcome o).
StopBody(d, o) ==
  IF ~Running(desc[d]) THEN Cur
  ELSE Reap([Cur EXCEPT !.signalled = TRUE], d, o)

\* func (p *PostgresCluster) Stop(): the body, then the deferred func.
StopR(d, o) == RunHook(StopBody(d, o), desc[d])

\* The outcomes of the process Stop signals.
StopOutcomes(d) ==
  IF Running(desc[d]) THEN AfterSigTerm(procs[desc[d].proc]) ELSE {"none"}

Stop(d) ==
  /\ desc[d].used
  /\ \E o \in StopOutcomes(d) : Apply(StopR(d, o))

\* ------------------------------------------------------------------ Clone
\* Mutant of CloneErr: the destination is checked first.
CloneErrDestFirst(p, dest) ==
  IF Exists(dest) THEN ErrCloneExists
  ELSE IF Running(p) THEN ErrCloneRunning
  ELSE IF ~Initialized(p) THEN ErrCloneUninit
  ELSE NoErr

\* Mutant of CloneErr: an existing destination is not refused.
CloneErrNoDestCheck(p, dest) ==
  IF Running(p) THEN ErrCloneRunning
  ELSE IF ~Initialized(p) THEN ErrCloneUninit
  ELSE NoErr

\* The three checks of Clone, in the order of the code.
CloneErr(p, dest) ==
  IF Running(p) THEN ErrCloneRunning
  ELSE IF ~Initialized(p) THEN ErrCloneUninit
  ELSE IF Exists(dest) THEN ErrCloneExists
  ELSE NoErr

\* Mutant of Copy: the directory is moved.
CopyMoves(r, src, dest) == [r EXCEPT !.fs[dest] = r.fs[src], !.fs[src] = Absent]

\* exec.Command("cp", "-r", p.DataDir, dest) into a dest that does not exist.
Copy(r, src, dest) == [r EXCEPT !.fs[dest] = r.fs[src]]

\* Mutant of Cloned: the copy keeps the DataDir of the source.
ClonedAlias(p, dest) == p

\* cloned := *p; cloned.DataDir = dest
Cloned(p, dest) == [p EXCEPT !.DataDir = dest]

\* The descriptor c is handed to the caller.
Return(r, c) == [r EXCEPT !.desc[NextDesc] = c, !.new = NextDesc]

\* The descriptor handed to the caller by d.Clone.
ReturnClone(r, d, c) == [Return(r, c) EXCEPT !.from[NextDesc] = d]

\* p.Clone(dest) for a descriptor value p, starting from r: cp succeeds (ok), or
\* fails and creates nothing (a dest whose parent is missing).
CloneOf(r, p, dest, ok) ==
  IF CloneErr(p, dest) # NoErr THEN [r EXCEPT !.err = CloneErr(p, dest)]
  ELSE IF ok THEN Copy(r, p.DataDir, dest)
  ELSE [r EXCEPT !.err = ErrCopy]

\* func (p *PostgresCluster) Clone(dest)
CloneR(d, dest, ok) ==
  LET r == CloneOf(Cur, desc[d], dest, ok)
  IN IF r.err = NoErr THEN ReturnClone(r, d, Cloned(desc[d], dest)) ELSE r

\* Within the bound on descriptors.
CloneCan(d, dest, ok) ==
  CloneOf(Cur, desc[d], dest, ok).err = NoErr => NextDesc <= MaxDesc

Clone(d, dest) ==
  /\ desc[d].used
  /\ \E ok \in BOOLEAN :
       /\ CloneCan(d, dest, ok)
       /\ Apply(CloneR(d, dest, ok))

\* ------------------------------------------------------------------ templates
\* func (t ghostgresTemplate) data(): the snapshot directory; config(): the
\* descriptor file ghostgres.json, held in tplJson.

\* func parseVersion(output): the version in the output; fault.Check panics
\* when there is none.
parseVersion(output) ==
  [version |-> Found[output],
   err |-> IF Found[output] = <<>> THEN ErrVersion ELSE NoErr]

\* func postgresVersion(): the version in the output of `postgres --version`;
\* panics when the binary cannot be run.
postgresVersion ==
  IF ~probe.ok THEN [version |-> <<>>, err |-> ErrExec] ELSE parseVersion(probe.out)

\* Mutant of newTemplate: the version is not part of the path of a template.
newTemplateNoVersion(name) ==
  [id |-> [name |-> name, version |-> Found[DefaultProbe.out]], err |-> postgresVersion.err]

\* func newTemplate(root, name): the template at root/name/postgresVersion();
\* the panic of postgresVersion() is carried as err.
newTemplate(name) ==
  [id |-> [name |-> name, version |-> postgresVersion.version], err |-> postgresVersion.err]

\* The templates newTemplate gives for the names there are, with the postgres
\* that is installed.
TplIds == {newTemplate(n).id : n \in {m \in TplNames : newTemplate(m).err = NoErr}}

\* Mutant of Marshal: the Config of the cluster is not written.
MarshalNoConfig(p) == [present |-> TRUE, DataDir |-> p.DataDir, Config |-> <<>>]

\* json.MarshalIndent(clone): the exported fields of the clone; proc and onStop
\* are not exported and are not written.
Marshal(p) == [present |-> TRUE, DataDir |-> p.DataDir, Config |-> p.Config]

\* json.Unmarshal(..., &cluster) into PostgresCluster{}
Unmarshal(j) ==
  [used |-> TRUE, DataDir |-> j.DataDir, Config |-> j.Config, proc |-> 0, onStop |-> 0]

\* os.MkdirAll(t.path(), 0700)
MkdirAll(r, id) == [r EXCEPT !.tplRoot = @ \cup {id}]

\* ioutil.WriteFile(t.config(), marshalled, 0600)
WriteJson(r, id, c) == [r EXCEPT !.tplJson[id] = Marshal(c)]

\* How createFrom can end once the checks passed: all succeeds ("ok"), cp fails
\* ("cp"), or the descriptor file cannot be written ("write").
FreezeOutcomes == {"ok", "cp", "write"}

\* func (t ghostgresTemplate) createFrom(c), called by Freeze(dir, name)
FreezeR(d, id, outcome) ==
  IF Running(desc[d]) THEN Fail(ErrFreezeRunning)
  ELSE LET r == CloneOf(MkdirAll(Cur, id), desc[d], data(id), outcome # "cp")
       IN IF r.err # NoErr THEN r
          ELSE IF outcome = "write" THEN [r EXCEPT !.err = ErrWriteJson]
          ELSE WriteJson(r, id, Cloned(desc[d], data(id)))

\* func (cluster *PostgresCluster) Freeze(dir, name): newTemplate(dir, name),
\* then createFrom; a panic of newTemplate is returned as the error.
FreezeCall(d, name, outcome) ==
  IF newTemplate(name).err # NoErr THEN Fail(newTemplate(name).err)
  ELSE FreezeR(d, newTemplate(name).id, outcome)

Freeze(d, name) ==
  /\ desc[d].used
  /\ \E outcome \in FreezeOutcomes : Apply(FreezeCall(d, name, outcome))

\* ioutil.TempDir("", "ghostgres_clone"): a new temporary directory.
TempDir(r) == [r EXCEPT !.nextTmp = @ + 1, !.tmpRoot = @ \cup {r.nextTmp + 1}]

\* func (t ghostgresTemplate) clone(cloneDir), called by FromTemplate(dir, name,
\* dest); dest = NoPath is the empty string.
FromTemplateR(id, dest, ok) ==
  IF ~tplJson[id].present THEN Fail(ErrNoSuchFile)
  ELSE LET cluster  == Unmarshal(tplJson[id])
           tmp      == nextTmp + 1
           r0       == IF dest = NoPath THEN TempDir(Cur) ELSE Cur
           cloneDir == IF dest = NoPath THEN TmpClone(tmp) ELSE dest
           onStop   == IF dest = NoPath THEN tmp ELSE 0
           r        == CloneOf(r0, cluster, cloneDir, ok)
       IN IF r.err # NoErr THEN r
          ELSE Return(r, [Cloned(cluster, cloneDir) EXCEPT !.onStop = onStop])

\* Within the bounds on temporary directories and descriptors.
FromTemplateCan(id, dest, ok) ==
  /\ tplJson[id].present /\ dest = NoPath => nextTmp < MaxTmp
  /\ tplJson[id].present /\ ok => NextDesc <= MaxDesc

\* func FromTemplate(dir, name, dest): newTemplate(dir, name), then clone(dest).
FromTemplateCall(name, dest, ok) ==
  IF newTemplate(name).err # NoErr THEN Fail(newTemplate(name).err)
  ELSE FromTemplateR(newTemplate(name).id, dest, ok)

FromTemplate(name, dest) ==
  \E ok \in BOOLEAN :
    /\ newTemplate(name).err = NoErr => FromTemplateCan(newTemplate(name).id, dest, ok)
    /\ Apply(FromTemplateCall(name, dest, ok))

\* Mutant of DeleteR: only the descriptor file is removed.
DeleteRKeepsData(id) == [Cur EXCEPT !.tplJson[id] = NoJson]

\* func Delete(dir, name): os.RemoveAll(newTemplate(dir, name).path())
DeleteR(id) ==
  [Cur EXCEPT !.tplRoot = @ \ {id}, !.fs[data(id)] = Absent, !.tplJson[id] = NoJson]

\* func Delete(dir, name): newTemplate(dir, name), then os.RemoveAll of its path.
DeleteCall(name) ==
  IF newTemplate(name).err # NoErr THEN Fail(newTemplate(name).err)
  ELSE DeleteR(newTemplate(name).id)

Delete(name) == Apply(DeleteCall(name))

\* ------------------------------------------------------------------ environment
\* The ways a postgres process ends: exit status 0 or 1, SIGINT, SIGTERM.
Outcomes == {"exit0", "exit1", "sigint", "sigterm"}

\* A running postgres ends by itself or is killed by a signal.
ProcExit(pid) ==
  /\ procs[pid].state = "alive"
  /\ \E o \in Outcomes :
       procs' = [procs EXCEPT ![pid].state = "exited", ![pid].outcome = o,
                              ![pid].sock = 0]
  /\ UNCHANGED <<desc, fs, tmpRoot, nextTmp, tplRoot, tplJson, from, probe, conc>>

\* A running postgres writes to its data directory.
ProcWrite(pid) ==
  /\ procs[pid].state = "alive"
  /\ fs[procs[pid].dir].exists
  /\ fs[procs[pid].dir].data < MaxData
  /\ fs' = [fs EXCEPT ![procs[pid].dir].data = @ + 1]
  /\ UNCHANGED <<desc, tmpRoot, nextTmp, tplRoot, tplJson, procs, from, probe, conc>>

\* A running postgres starts serving: it creates the socket file of the port of
\* its postgresql.conf in its data directory (-k socketDir, -c config_file).
ProcServe(pid) ==
  /\ procs[pid].state = "alive"
  /\ procs[pid].sock = 0
  /\ fs[procs[pid].dir].exists
  /\ PgPort(fs[procs[pid].dir].text) # 0
  /\ procs' = [procs EXCEPT ![pid].sock = PgPort(fs[procs[pid].dir].text)]
  /\ UNCHANGED <<desc, fs, tmpRoot, nextTmp, tplRoot, tplJson, from, probe, conc>>

\* ------------------------------------------------------------------ specification
UserPaths == {UserPath(i) : i \in UserDirs}
Dests == UserPaths \cup {NoPath}

Next ==
  \/ \E d \in Descs : Init(d)
  \/ \E d \in Descs : InitIfNeeded(d)
  \/ \E d \in Descs : Start(d)
  \/ \E d \in Descs : WaitTillServing(d)
  \/ \E d \in Descs : Wait(d)
  \/ \E d \in Descs : Stop(d)
  \/ \E d \in Descs, dest \in UserPaths : Clone(d, dest)
  \/ \E d \in Descs, name \in TplNames : Freeze(d, name)
  \/ \E name \in TplNames, dest \in Dests : FromTemplate(name, dest)
  \/ \E name \in TplNames : Delete(name)
  \/ \E pid \in Pids : ProcExit(pid)
  \/ \E pid \in Pids : ProcWrite(pid)

\* The socket file of a process is read by WaitTillServing alone, which changes
\* nothing: the step that creates it is followed in ConfigSpec.
Spec == Initial /\ [][Next]_vars

\* The lifecycle of the descriptor the caller built, for every Config.
NextConfig ==
  \/ \E d \in Descs : Init(d)
  \/ \E d \in Descs : Start(d)
  \/ \E d \in Descs : WaitTillServing(d)
  \/ \E d \in Descs : Wait(d)
  \/ \E d \in Descs : Stop(d)
  \/ \E pid \in Pids : ProcExit(pid)
  \/ \E pid \in Pids : ProcServe(pid)

ConfigSpec == InitialAnyConfig /\ [][NextConfig]_vars

\* ------------------------------------------------------------------ Wait and Stop at once
\* Wait in a goroutine W and Stop in a goroutine S on the same descriptor, step by
\* step: each step is one read or write of p.proc, or one call on the process.
\* Neither function locks, so the steps of the two interleave freely.
Threads == {"W", "S"}
Other(t) == IF t = "W" THEN "S" ELSE "W"

\* Where a goroutine goes when its Wait() is over: W has returned, S is back in
\* Stop, at its deferred func.
AfterWait(t) == IF t = "S" THEN "hook" ELSE "done"

\* Neither call was made yet.
Quiet == conc = NoCalls

\* go p.Wait() on a Running descriptor.
GoWait(d) ==
  /\ Quiet
  /\ desc[d].used /\ Running(desc[d])
  /\ conc' = [NoCalls EXCEPT !.d = d, !.pc["W"] = "check"]
  /\ UNCHANGED <<desc, fs, tmpRoot, nextTmp, tplRoot, tplJson, procs, from, probe>>

\* p.Stop() is called while the Wait of the other goroutine has not returned.
GoStop ==
  /\ conc.pc["W"] \in {"check", "call", "blocked", "clear"}
  /\ conc.pc["S"] = "idle"
  /\ conc' = [conc EXCEPT !.pc["S"] = "scheck", !.overlap = TRUE]
  /\ UNCHANGED <<desc, fs, tmpRoot, nextTmp, tplRoot, tplJson, procs, from, probe>>

\* Wait: check.True(p.Running(), "postgres cluster not running")
WaitCheck(t) ==
  /\ conc.pc[t] = "check"
  /\ conc' = IF Running(desc[conc.d]) THEN [conc EXCEPT !.pc[t] = "call"]
             ELSE [conc EXCEPT !.pc[t] = AfterWait(t), !.err[t] = ErrNotRunning]
  /\ UNCHANGED <<desc, fs, tmpRoot, nextTmp, tplRoot, tplJson, procs, from, probe>>

\* Wait: p.proc.Wait() is entered with the p.proc read now. A nil p.proc is
\* dereferenced; a *exec.Cmd whose Wait() was entered before returns "Wait was
\* already called", or, as its flag is read and written without a lock, is
\* waited for again.
WaitCall(t) ==
  /\ conc.pc[t] = "call"
  /\ LET h == desc[conc.d].proc
     IN IF h = 0
          THEN conc' = [conc EXCEPT !.pc[t] = "clear", !.err[t] = ErrNilDeref,
                                    !.nilUse = TRUE]
        ELSE \E again \in BOOLEAN :
               /\ again => conc.h[Other(t)] = h
               /\ conc' = IF again
                            THEN [conc EXCEPT !.pc[t] = "clear", !.err[t] = ErrWaitCalled,
                                              !.waits = @ + 1]
                          ELSE [conc EXCEPT !.pc[t] = "blocked", !.h[t] = h,
                                            !.waits = @ + 1]
  /\ UNCHANGED <<desc, fs, tmpRoot, nextTmp, tplRoot, tplJson, procs, from, probe>>

\* Wait: p.proc.Wait() returns once the process has ended: the goroutine that
\* reaps it gets the way it ended, one that comes after gets an error.
WaitReturn(t) ==
  /\ conc.pc[t] = "blocked"
  /\ procs[conc.h[t]].state \in {"exited", "reaped"}
  /\ conc' = [conc EXCEPT !.pc[t] = "clear",
                          !.err[t] = IF procs[conc.h[t]].state = "exited"
                                       THEN WaitErr(procs[conc.h[t]].outcome)
                                     ELSE ErrNoChild]
  /\ procs' = [procs EXCEPT ![conc.h[t]] = [NoProc EXCEPT !.state = "reaped", !.owner = conc.d]]
  /\ UNCHANGED <<desc, fs, tmpRoot, nextTmp, tplRoot, tplJson, from, probe>>

\* Wait: the deferred func() { p.proc = nil }
WaitClear(t) ==
  /\ conc.pc[t] = "clear"
  /\ desc' = [desc EXCEPT ![conc.d].proc = 0]
  /\ conc' = [conc EXCEPT !.pc[t] = AfterWait(t)]
  /\ UNCHANGED <<fs, tmpRoot, nextTmp, tplRoot, tplJson, procs, from, probe>>

\* Stop: if !p.Running() { return }
StopCheck ==
  /\ conc.pc["S"] = "scheck"
  /\ conc' = [conc EXCEPT !.pc["S"] = IF Running(desc[conc.d]) THEN "signal" ELSE "hook"]
  /\ UNCHANGED <<desc, fs, tmpRoot, nextTmp, tplRoot, tplJson, procs, from, probe>>

\* Stop: p.proc.Process.Signal(syscall.SIGTERM) with the p.proc read now, then
\* p.Wait() is called.
StopSignal ==
  /\ conc.pc["S"] = "signal"
  /\ LET h == desc[conc.d].proc
     IN IF h = 0
          THEN /\ conc' = [conc EXCEPT !.pc["S"] = "hook", !.err["S"] = ErrNilDeref,
                                       !.nilUse = TRUE]
               /\ procs' = procs
        ELSE /\ conc' = [conc EXCEPT !.pc["S"] = "check", !.signalled = TRUE]
             /\ \E o \in AfterSigTerm(procs[h]) :
                  procs' = IF procs[h].state = "alive"
                             THEN [procs EXCEPT ![h].state = "exited", ![h].outcome = o,
                                                ![h].sock = 0]
                           ELSE procs
  /\ UNCHANGED <<desc, fs, tmpRoot, nextTmp, tplRoot, tplJson, from, probe>>

\* Stop: the deferred func (p.onStop), and Stop returns.
StopReturn ==
  /\ conc.pc["S"] = "hook"
  /\ Moves(RunHook(Cur, desc[conc.d]))
  /\ conc' = [conc EXCEPT !.pc["S"] = "done"]
  /\ UNCHANGED probe

\* One descriptor is initialized and started, then Wait and Stop run on it at
\* once; its postgres can end by itself at any time.
NextConc ==
  \/ \E d \in Descs : Quiet /\ Init(d)
  \/ \E d \in Descs : Quiet /\ Start(d)
  \/ \E pid \in Pids : ProcExit(pid)
  \/ \E d \in Descs : GoWait(d)
  \/ GoStop
  \/ \E t \in Threads : WaitCheck(t)
  \/ \E t \in Threads : WaitCall(t)
  \/ \E t \in Threads : WaitReturn(t)
  \/ \E t \in Threads : WaitClear(t)
  \/ StopCheck
  \/ StopSignal
  \/ StopReturn

ConcSpec == Initial /\ [][NextConc]_vars

\* The postgres that is installed is replaced by another one, or removed.
Probes == {[ok |-> TRUE, out |-> o] : o \in Outputs} \cup {[ok |-> FALSE, out |-> <<>>]}

Upgrade ==
  /\ probe' \in Probes \ {probe}
  /\ UNCHANGED <<desc, fs, tmpRoot, nextTmp, tplRoot, tplJson, procs, from, conc>>

\* The template store while the postgres that is installed changes.
NextVersion ==
  \/ \E d \in Descs : InitIfNeeded(d)
  \/ \E d \in Descs : Stop(d)
  \/ \E d \in Descs, name \in TplNames : Freeze(d, name)
  \/ \E name \in TplNames, dest \in Dests : FromTemplate(name, dest)
  \/ \E name \in TplNames : Delete(name)
  \/ Upgrade

VersionSpec == Initial /\ [][NextVersion]_vars

\* ================================================================== claims

\* C1: no descriptor is Running while it is not Initialized, in any state reached
\* by serialized calls of Init, InitIfNeeded, Start, Wait, Stop, Clone, Freeze,
\* FromTemplate and Delete, clones of ephemeral clusters included.
C1_RunningImpliesInitialized ==
  \A d \in Used : Running(desc[d]) => Initialized(desc[d])

\* C2: Start on a descriptor that is not Initialized fails with "postgres cluster
\* not initialized", spawns no process, and the descriptor is not Running after it.
C2_StartUninitialized ==
  \A d \in Used, ok \in BOOLEAN :
    ~Initialized(desc[d]) /\ StartCan(d, ok) =>
      LET r == StartR(d, ok)
      IN /\ r.err = ErrNotInit
         /\ r.spawned = 0
         /\ r.procs = procs
         /\ ~Running(r.desc[d])

\* C3: Start on a descriptor that is Running fails with "postgres cluster already
\* running", spawns no second process, and leaves the handle and the process as
\* they were.
C3_StartRunning ==
  \A d \in Used, ok \in BOOLEAN :
    Running(desc[d]) /\ StartCan(d, ok) =>
      LET r == StartR(d, ok)
      IN /\ r.err = ErrAlreadyRunning
         /\ r.spawned = 0
         /\ r.procs = procs
         /\ r.desc[d].proc = desc[d].proc

CallsOn(d) ==
  {StartR(d, ok) : ok \in {b \in BOOLEAN : StartCan(d, b)}}
    \cup (IF WaitCan(d) THEN {WaitR(d)} ELSE {})
    \cup {StopR(d, o) : o \in StopOutcomes(d)}
    \cup {CloneR(d, x[1], x[2]) :
            x \in {y \in UserPaths \X BOOLEAN : CloneCan(d, y[1], y[2])}}
    \cup {FreezeR(d, x[1], x[2]) : x \in TplIds \X FreezeOutcomes}

\* C5: after a successful Clone, no Start, Wait, Stop, Clone or Freeze on the
\* source or on the clone removes or alters the data directory of the other, also
\* when the source is an ephemeral cluster of FromTemplate.
C5_CloneIndependent ==
  \A c \in Used :
    from[c] # 0 =>
      /\ \A r \in CallsOn(c) : r.fs[desc[from[c]].DataDir] = fs[desc[from[c]].DataDir]
      /\ \A r \in CallsOn(from[c]) : r.fs[desc[c].DataDir] = fs[desc[c].DataDir]

\* C6: a successful Clone(dest) returns a new descriptor whose DataDir is dest and
\* not the source's, whose directory holds what the source's held at the call and
\* is Initialized; the source descriptor and its directory are as before.
C6_CloneResult ==
  \A d \in Used, dest \in UserPaths :
    LET p == desc[d]
        r == CloneR(d, dest, TRUE)
    IN CloneCan(d, dest, TRUE) /\ r.err = NoErr =>
         /\ r.new \in Descs \ Used
         /\ r.desc[r.new].DataDir = dest
         /\ r.desc[r.new].DataDir # p.DataDir
         /\ r.desc[r.new].Config = p.Config
         /\ ~Running(r.desc[r.new])
         /\ r.fs[dest] = fs[p.DataDir]
         /\ r.fs[dest].exists /\ r.fs[dest].conf # "none"
         /\ r.desc[d] = p
         /\ r.fs[p.DataDir] = fs[p.DataDir]
         /\ \A q \in Paths \ {dest} : r.fs[q] = fs[q]
         /\ r.procs = procs

\* A clone is in use beside its source, made of a directory a process wrote to.
C6_Witness ==
  \E c \in Used :
    /\ from[c] # 0
    /\ desc[c].DataDir # desc[from[c]].DataDir
    /\ fs[desc[c].DataDir] = fs[desc[from[c]].DataDir]
    /\ fs[desc[c].DataDir].data = MaxData

\* C7: Stop on a descriptor that is not Running returns nil and does nothing: no
\* signal is sent, onStop is not invoked, and the data directory and
\* Initialized() are as before, ephemeral descriptors included.
C7_StopNotRunning ==
  \A d \in Used :
    ~Running(desc[d]) =>
      LET r == StopR(d, "none")
      IN /\ r.err = NoErr
         /\ ~r.signalled
         /\ ~r.hook
         /\ r.fs[desc[d].DataDir] = fs[desc[d].DataDir]
         /\ Untouched(r)

\* The step reaps the process of descriptor d: a Wait or a Stop on the Running
\* descriptor d returns.
Returns(d) == Running(desc[d]) /\ procs'[desc[d].proc].state = "reaped"

\* C8: when Wait or Stop returns on a Running descriptor, with or without an
\* error, the descriptor is not Running afterwards, and if it is still
\* Initialized the checks of a following Start pass (it is not rejected as
\* already running).
C8_WaitStopClearRunning ==
  [][\A d \in Descs :
       desc[d].used /\ Returns(d) =>
         /\ ~Running(desc'[d])
         /\ Initialized(desc[d])' => StartErr(desc[d])' = NoErr]_vars

\* A descriptor runs its second process: it was started, waited for or stopped,
\* and started again.
C8_Witness ==
  \E d \in Used :
    /\ procs[1].state = "reaped" /\ procs[1].owner = d
    /\ procs[2].state = "alive" /\ procs[2].owner = d
    /\ desc[d].proc = 2

\* C9: a descriptor owns at most one process that has not been waited for, it
\* is Running exactly when it holds the handle of such a process, and no process
\* is alive or unreaped while its descriptor is not Running.
C9_OneProcess ==
  /\ \A d \in Used : Cardinality({pid \in Live : procs[pid].owner = d}) <= 1
  /\ \A d \in Used :
       Running(desc[d]) => desc[d].proc \in Live /\ procs[desc[d].proc].owner = d
  /\ \A pid \in Live : desc[procs[pid].owner].proc = pid

\* A descriptor still holds the handle of a process that has ended, after an
\* earlier process of it was waited for.
C9_Witness ==
  \E d \in Used :
    /\ Running(desc[d])
    /\ procs[desc[d].proc].state = "exited"
    /\ \E pid \in Pids : procs[pid].state = "reaped" /\ procs[pid].owner = d

\* C10: Init on an Initialized descriptor, Running or not, fails with "postgres
\* cluster already initialized", runs no initdb, writes no postgresql.conf and
\* leaves the data directory (and everything else) as it was.
C10_InitTwice ==
  \A d \in Used, outcome \in InitOutcomes :
    Initialized(desc[d]) =>
      LET r == InitR(d, outcome)
      IN /\ r.err = ErrAlreadyInit
         /\ ~r.initdb
         /\ ~r.conf
         /\ r.fs[desc[d].DataDir] = fs[desc[d].DataDir]
         /\ Untouched(r)

\* An Initialized descriptor that is Running beside one that is not.
C10_Witness ==
  /\ \E d \in Used : Initialized(desc[d]) /\ Running(desc[d])
  /\ \E d \in Used : Initialized(desc[d]) /\ ~Running(desc[d])

\* Initialized() of descriptor value p in the state a result leaves.
InitializedIn(r, p) == r.fs[p.DataDir].exists /\ r.fs[p.DataDir].conf # "none"

\* The descriptors the caller built over an empty data directory (testCluster).
Built == {d \in Used : d = 1}

\* C11: for a descriptor built over an empty directory, Initialized() is true
\* exactly when an Init of it has returned nil: it is false at first, an Init
\* that fails at any step leaves it false, an Init that succeeds makes it true,
\* no other call on the descriptor makes it true, and once true it stays true
\* across every Start, Wait, Stop, Clone and Freeze on the descriptor.
C11_InitializedIffInit ==
  \A d \in Built :
    /\ ~Initialized(desc[d]) =>
         /\ \A outcome \in {o \in InitOutcomes : InitCan(desc[d], o)} :
              LET r == InitR(d, outcome)
              IN InitializedIn(r, desc[d]) <=> r.err = NoErr
         /\ \A r \in CallsOn(d) : ~InitializedIn(r, desc[d])
    /\ Initialized(desc[d]) =>
         \A r \in CallsOn(d) : InitializedIn(r, desc[d])

\* C11 without the outcome of Init in which postgresql.conf is created and the
\* write of its content fails.
C11_ExceptPartialWrite ==
  \A d \in Built :
    /\ ~Initialized(desc[d]) =>
         /\ \A outcome \in {o \in InitOutcomes \ {"partial"} : InitCan(desc[d], o)} :
              LET r == InitR(d, outcome)
              IN InitializedIn(r, desc[d]) <=> r.err = NoErr
         /\ \A r \in CallsOn(d) : ~InitializedIn(r, desc[d])
    /\ Initialized(desc[d]) =>
         \A r \in CallsOn(d) : InitializedIn(r, desc[d])

\* C12: InitIfNeeded is idempotent: on a descriptor that is not Initialized it
\* is Init, for every outcome of Init; on an Initialized descriptor it returns
\* nil and changes nothing; and when it returns nil the descriptor is
\* Initialized, so every further call is of the second kind.
C12_InitIfNeededIdempotent ==
  \A d \in Used, outcome \in InitOutcomes :
    LET r == InitIfNeededR(d, outcome)
    IN /\ ~Initialized(desc[d]) => r = InitR(d, outcome)
       /\ Initialized(desc[d]) =>
            /\ r.err = NoErr
            /\ ~r.initdb /\ ~r.conf
            /\ Untouched(r)
       /\ InitCan(desc[d], outcome) /\ r.err = NoErr => InitializedIn(r, desc[d])

\* An Initialized descriptor with a process that wrote to its directory, beside
\* a descriptor that is not Initialized.
C12_Witness ==
  /\ \E d \in Used : Initialized(desc[d]) /\ fs[desc[d].DataDir].data = MaxData
  /\ \E d \in Used : ~Initialized(desc[d])

\* C13: Wait, and Stop on a Running descriptor, return nil when the process
\* exited with status 0 or was terminated by SIGTERM, "exit status 1" when it
\* exited with status 1 and "signal: interrupt" when it was killed by SIGINT.
C13_WaitErrors ==
  \A d \in Used :
    Running(desc[d]) =>
      LET rs == (IF WaitCan(d) THEN {<<procs[desc[d].proc].outcome, WaitR(d)>>} ELSE {})
                  \cup {<<o, StopR(d, o)>> : o \in StopOutcomes(d)}
      IN \A x \in rs :
           /\ x[1] \in Outcomes
           /\ x[1] \in {"exit0", "sigterm"} <=> x[2].err = NoErr
           /\ x[1] = "exit1" => x[2].err = ErrExit1
           /\ x[1] = "sigint" => x[2].err = ErrSigInt

\* A Running descriptor whose process was terminated by SIGTERM and not yet
\* waited for, after an earlier process was waited for.
C13_Witness ==
  \E d \in Used :
    /\ Running(desc[d])
    /\ procs[desc[d].proc].state = "exited"
    /\ procs[desc[d].proc].outcome = "sigterm"
    /\ \E pid \in Pids : procs[pid].state = "reaped"

\* C14: Wait and WaitTillServing on a descriptor that is not Running, never
\* started or already waited for or stopped, return at once with "postgres
\* cluster not running" and "server has not been started", and leave every
\* descriptor, file and process as it was.
C14_WaitNotRunning ==
  \A d \in Used :
    ~Running(desc[d]) =>
      /\ WaitCan(d)
      /\ WaitR(d).err = ErrNotRunning
      /\ Untouched(WaitR(d))
      /\ \A o \in ServingOutcomes :
           /\ WaitTillServingCan(d, o)
           /\ WaitTillServingR(d, o).err = ErrNotStarted
           /\ Untouched(WaitTillServingR(d, o))

\* A descriptor that was never started beside one whose process was waited for,
\* neither of them Running.
C14_Witness ==
  /\ \E d \in Used :
       ~Running(desc[d]) /\ \E pid \in Pids : procs[pid].state = "reaped" /\ procs[pid].owner = d
  /\ \E d \in Used :
       ~Running(desc[d]) /\ Initialized(desc[d]) /\ \A pid \in Pids : procs[pid].owner # d

\* C15: Start on an Initialized descriptor that is not Running, when the postgres
\* binary cannot be spawned, returns the error of the spawn, spawns nothing (no
\* retry) and leaves everything as it was: the descriptor is not Running and
\* still Initialized, and a Start whose spawn succeeds returns nil and makes it
\* Running.
C15_SpawnFailure ==
  \A d \in Used :
    Initialized(desc[d]) /\ ~Running(desc[d]) =>
      LET r == StartR(d, FALSE)
      IN /\ StartCan(d, FALSE)
         /\ r.err = ErrSpawn
         /\ r.spawned = 0
         /\ Untouched(r)
         /\ ~Running(r.desc[d]) /\ InitializedIn(r, r.desc[d])
         /\ StartCan(d, TRUE) =>
              /\ StartR(d, TRUE).err = NoErr
              /\ Running(StartR(d, TRUE).desc[d])
              /\ StartR(d, TRUE).spawned # 0

\* An Initialized descriptor that is not Running and can be started, after its
\* first process was waited for.
C15_Witness ==
  \E d \in Used :
    /\ Initialized(desc[d]) /\ ~Running(desc[d])
    /\ StartCan(d, TRUE)
    /\ procs[1].state = "reaped" /\ procs[1].owner = d

\* C16: in a Stop on a Running descriptor, onStop is invoked only after the
\* process has ended and the handle is cleared, and only when the stop
\* succeeded: when the Wait inside Stop returns an error the hook is not
\* invoked and the temporary directory stays.
C16_HookAfterSuccessfulStop ==
  \A d \in Used :
    Running(desc[d]) =>
      \A o \in StopOutcomes(d) :
        LET r == StopR(d, o)
        IN /\ r.hook =>
                /\ ~Running(r.desc[d])
                /\ r.procs[desc[d].proc].state = "reaped"
                /\ r.err = NoErr
           /\ r.err # NoErr => ~r.hook /\ r.fs = fs /\ r.tmpRoot = tmpRoot

\* The ephemeral descriptors: those FromTemplate returned for an empty dest,
\* which live in the clone directory of the temporary directory of their hook.
Ephemeral ==
  {d \in Used : desc[d].onStop # 0 /\ desc[d].DataDir = TmpClone(desc[d].onStop)}

\* The temporary directory t and the clone directory in it exist in result r.
TmpExistsIn(r, t) == t \in r.tmpRoot /\ r.fs[TmpClone(t)].exists

\* The calls on descriptor d other than Stop, as results.
CallsButStop(d) ==
  {InitR(d, o) : o \in {x \in InitOutcomes : InitCan(desc[d], x)}}
    \cup {InitIfNeededR(d, o) : o \in {x \in InitOutcomes : InitCan(desc[d], x)}}
    \cup {StartR(d, ok) : ok \in {b \in BOOLEAN : StartCan(d, b)}}
    \cup {WaitTillServingR(d, o) : o \in {x \in ServingOutcomes : WaitTillServingCan(d, x)}}
    \cup (IF WaitCan(d) THEN {WaitR(d)} ELSE {})
    \cup {CloneR(d, x[1], x[2]) :
            x \in {y \in UserPaths \X BOOLEAN : CloneCan(d, y[1], y[2])}}
    \cup {FreezeR(d, x[1], x[2]) : x \in TplIds \X FreezeOutcomes}

\* The calls on the template store that are on no descriptor, as results.
StoreCalls ==
  {FromTemplateR(x[1], x[2], x[3]) :
     x \in {y \in TplIds \X Dests \X BOOLEAN : FromTemplateCan(y[1], y[2], y[3])}}
    \cup {DeleteR(id) : id \in TplIds}

\* C17: the cluster FromTemplate returns for an empty dest lives in a new
\* temporary directory that exists when FromTemplate returns; it exists after
\* every call that is not a Stop on that cluster (Start and WaitTillServing on
\* it, any call on another descriptor, any call on the template store), and it
\* is gone when a Stop on that cluster has returned.
C17_EphemeralLifetime ==
  /\ \A id \in TplIds :
       FromTemplateCan(id, NoPath, TRUE) =>
         LET r == FromTemplateR(id, NoPath, TRUE)
         IN r.err = NoErr =>
              /\ r.desc[r.new].DataDir = TmpClone(r.nextTmp)
              /\ r.nextTmp \notin tmpRoot /\ ~Exists(TmpClone(r.nextTmp))
              /\ TmpExistsIn(r, r.nextTmp)
  /\ \A e \in Ephemeral :
       LET t == desc[e].onStop
       IN TmpExistsIn(Cur, t) =>
            /\ \A r \in CallsButStop(e) \cup StoreCalls : TmpExistsIn(r, t)
            /\ \A c \in Used \ {e} :
                 \A r \in CallsButStop(c) \cup {StopR(c, o) : o \in StopOutcomes(c)} :
                   TmpExistsIn(r, t)
            /\ \A o \in StopOutcomes(e) :
                 t \notin StopR(e, o).tmpRoot /\ ~StopR(e, o).fs[TmpClone(t)].exists

\* C18: a Freeze of an Initialized cluster that is not Running, on an identity
\* without a snapshot, writes a snapshot equal to the data directory of the
\* cluster and a descriptor file with its Config; and while that template is
\* there, FromTemplate with a dest that does not exist returns a new descriptor,
\* Initialized and not Running, whose DataDir is dest (not the snapshot
\* directory, not the directory of any cluster) and whose data and Config are
\* those of the snapshot.
C18_FreezeThenFromTemplate ==
  \A id \in TplIds :
    /\ \A d \in Used :
         Initialized(desc[d]) /\ ~Running(desc[d]) /\ ~Exists(data(id)) =>
           LET r == FreezeR(d, id, "ok")
           IN /\ r.err = NoErr
              /\ r.fs[data(id)] = fs[desc[d].DataDir]
              /\ r.tplJson[id].present
              /\ r.tplJson[id].DataDir = data(id)
              /\ r.tplJson[id].Config = desc[d].Config
    /\ tplJson[id].present =>
         /\ tplJson[id].DataDir = data(id)
         /\ \A dest \in UserPaths :
              ~Exists(dest) /\ FromTemplateCan(id, dest, TRUE) =>
                LET r == FromTemplateR(id, dest, TRUE)
                IN /\ r.err = NoErr
                   /\ r.new \in Descs \ Used
                   /\ r.desc[r.new].DataDir = dest
                   /\ dest # data(id)
                   /\ \A d \in Used : Exists(desc[d].DataDir) => dest # desc[d].DataDir
                   /\ r.fs[dest] = fs[data(id)]
                   /\ r.desc[r.new].Config = tplJson[id].Config
                   /\ InitializedIn(r, r.desc[r.new])
                   /\ ~Running(r.desc[r.new])
                   /\ r.fs[data(id)] = fs[data(id)] /\ r.tplJson = tplJson

\* A cluster made by FromTemplate in a directory of the caller holds the
\* snapshot of a template frozen after a process wrote to the frozen cluster.
C18_Witness ==
  \E id \in TplIds, d \in Used \ Built :
    /\ tplJson[id].present
    /\ from[d] = 0
    /\ desc[d].DataDir \in UserPaths
    /\ fs[desc[d].DataDir] = fs[data(id)]
    /\ fs[data(id)].data = MaxData

\* C19: Delete removes the snapshot and the descriptor file of the template and
\* leaves every cluster, directory and process as it was; and while the
\* descriptor file is gone every FromTemplate on the identity fails with "no
\* such file or directory" and creates nothing, at dest or elsewhere.
C19_DeleteThenFromTemplate ==
  \A id \in TplIds :
    /\ LET r == DeleteR(id)
       IN /\ r.err = NoErr
          /\ ~r.tplJson[id].present
          /\ ~r.fs[data(id)].exists
          /\ id \notin r.tplRoot
          /\ r.desc = desc /\ r.procs = procs
          /\ r.tmpRoot = tmpRoot /\ r.nextTmp = nextTmp
          /\ \A q \in Paths \ {data(id)} : r.fs[q] = fs[q]
    /\ ~tplJson[id].present =>
         \A dest \in Dests, ok \in BOOLEAN :
           LET r == FromTemplateR(id, dest, ok)
           IN /\ FromTemplateCan(id, dest, ok)
              /\ r.err = ErrNoSuchFile
              /\ r.new = 0
              /\ Untouched(r)

\* The template is gone while a cluster made from it by FromTemplate is Running.
C19_Witness ==
  \E id \in TplIds, d \in Used \ Built :
    /\ ~tplJson[id].present /\ ~Exists(data(id)) /\ id \notin tplRoot
    /\ from[d] = 0
    /\ Running(desc[d])

\* C20: Freeze on an identity that has a snapshot returns an error, for every
\* cluster and every outcome of its steps, and leaves the snapshot, the
\* descriptor file and everything else as they were, so FromTemplate gives the
\* content frozen first.
C20_FreezeTwice ==
  \A id \in TplIds, d \in Used, o \in FreezeOutcomes :
    Exists(data(id)) =>
      LET r == FreezeR(d, id, o)
      IN /\ r.err # NoErr
         /\ r.fs[data(id)] = fs[data(id)]
         /\ r.tplJson[id] = tplJson[id]
         /\ Untouched(r)
         /\ ~Running(desc[d]) /\ Initialized(desc[d]) => r.err = ErrCloneExists

\* A template is there, and a cluster that is Initialized and not Running holds
\* other data than the snapshot.
C20_Witness ==
  \E id \in TplIds, d \in Used :
    /\ tplJson[id].present
    /\ Initialized(desc[d]) /\ ~Running(desc[d])
    /\ fs[desc[d].DataDir] # fs[data(id)]

\* C21: on an identity without a template, Freeze succeeds only for a cluster
\* that is Initialized and not Running: a Running cluster is refused with
\* "cannot create a template from a running cluster", a cluster that is not
\* Initialized is refused too, and every Freeze that fails leaves neither a
\* descriptor file nor a snapshot, so FromTemplate still fails and a later
\* Freeze on the identity is not refused.
C21_FreezeFailures ==
  \A id \in TplIds, d \in Used, o \in FreezeOutcomes :
    ~tplJson[id].present /\ ~Exists(data(id)) =>
      LET r == FreezeR(d, id, o)
      IN /\ Running(desc[d]) => r.err = ErrFreezeRunning
         /\ ~Running(desc[d]) /\ ~Initialized(desc[d]) => r.err = ErrCloneUninit
         /\ r.err = NoErr => Initialized(desc[d]) /\ ~Running(desc[d])
         /\ r.err # NoErr =>
              /\ ~r.tplJson[id].present
              /\ ~r.fs[data(id)].exists
              /\ r.desc = desc /\ r.procs = procs

\* C21 without the outcome of Freeze in which the snapshot is copied and the
\* write of the descriptor file fails.
C21_ExceptWriteFailure ==
  \A id \in TplIds, d \in Used, o \in FreezeOutcomes \ {"write"} :
    ~tplJson[id].present /\ ~Exists(data(id)) =>
      LET r == FreezeR(d, id, o)
      IN /\ Running(desc[d]) => r.err = ErrFreezeRunning
         /\ ~Running(desc[d]) /\ ~Initialized(desc[d]) => r.err = ErrCloneUninit
         /\ r.err = NoErr => Initialized(desc[d]) /\ ~Running(desc[d])
         /\ r.err # NoErr =>
              /\ ~r.tplJson[id].present
              /\ ~r.fs[data(id)].exists
              /\ r.desc = desc /\ r.procs = procs

\* C30: a template whose descriptor file exists has an Initialized snapshot
\* directory, and a snapshot directory is never there without a descriptor
\* file, whatever calls of Freeze, FromTemplate and Delete succeeded or failed.
C30_TemplateConsistent ==
  \A id \in TplIds :
    /\ tplJson[id].present =>
         /\ id \in tplRoot
         /\ fs[data(id)].exists /\ fs[data(id)].conf # "none"
         /\ tplJson[id].DataDir = data(id)
    /\ fs[data(id)].exists => tplJson[id].present

\* The first half of C30: a descriptor file is never there without an
\* Initialized snapshot.
C30_DescriptorHasSnapshot ==
  \A id \in TplIds :
    tplJson[id].present =>
      /\ id \in tplRoot
      /\ fs[data(id)].exists /\ fs[data(id)].conf # "none"
      /\ tplJson[id].DataDir = data(id)

\* Every call on descriptor d, as results.
AllCallsOn(d) == CallsButStop(d) \cup {StopR(d, o) : o \in StopOutcomes(d)}

\* C23: a frozen template is immutable: while its descriptor file is there, no
\* FromTemplate and no call on any cluster (the clusters made from it and the
\* cluster it was frozen from among them) changes the snapshot directory or
\* the descriptor file, and no cluster and no process lives in the snapshot
\* directory; only Delete takes the template away.
C23_TemplateImmutable ==
  \A id \in TplIds :
    tplJson[id].present =>
      /\ \A d \in Used : desc[d].DataDir # data(id)
      /\ \A pid \in Live : procs[pid].dir # data(id)
      /\ \A r \in UNION {AllCallsOn(d) : d \in Used}
                    \cup {FromTemplateR(x[1], x[2], x[3]) :
                            x \in {y \in TplIds \X Dests \X BOOLEAN :
                                     FromTemplateCan(y[1], y[2], y[3])}} :
           /\ r.fs[data(id)] = fs[data(id)]
           /\ r.tplJson[id] = tplJson[id]
           /\ id \in r.tplRoot

\* Beside the template a cluster made from it has run and holds other data
\* than the snapshot.
C23_Witness ==
  \E id \in TplIds, d \in Used \ Built :
    /\ tplJson[id].present
    /\ from[d] = 0
    /\ fs[desc[d].DataDir].exists
    /\ fs[desc[d].DataDir].data > fs[data(id)].data
    /\ \E pid \in Pids : procs[pid].owner = d /\ procs[pid].state = "reaped"

\* C28: Start returns when the process is spawned: the descriptor is Running
\* with a process that is alive and has written nothing. A Running descriptor
\* stays Running with the same handle in every step, the exit of its process
\* included, unless the step is a Wait or a Stop on it, which reaps the
\* process; and when the process has ended by itself, Wait returns the error of
\* its exit status.
C28_RunningUntilWaited ==
  [][\A d \in Descs :
       /\ desc[d].used /\ ~Running(desc[d]) /\ Running(desc[d])' =>
            procs'[desc'[d].proc].state = "alive" /\ fs' = fs
       /\ desc[d].used /\ Running(desc[d]) =>
            /\ \/ Running(desc[d])' /\ desc'[d].proc = desc[d].proc
               \/ procs'[desc[d].proc].state = "reaped"
            /\ procs[desc[d].proc].state = "exited" =>
                 /\ WaitCan(d)
                 /\ WaitR(d).err = WaitErr(procs[desc[d].proc].outcome)]_vars

\* A descriptor is Running although its process has exited with status 1 after
\* writing to the data directory.
C28_Witness ==
  \E d \in Used :
    /\ Running(desc[d])
    /\ procs[desc[d].proc].state = "exited"
    /\ procs[desc[d].proc].outcome = "exit1"
    /\ fs[desc[d].DataDir].data = MaxData

\* The first option keyed "port" of a Config that has one.
HasPort(cfg) == \E i \in DOMAIN cfg : cfg[i].Key = "port"
FirstPort(cfg) == CHOOSE i \in DOMAIN cfg : cfg[i].Key = "port" /\ \A j \in DOMAIN cfg : cfg[j].Key = "port" => i <= j

\* A value that is an optional sign and digits.
Parses(v) ==
  \/ v # <<>> /\ \A i \in DOMAIN v : IsDigit(v[i])
  \/ Len(v) > 1 /\ v[1] \in {"+", "-"} /\ \A i \in 2..Len(v) : IsDigit(v[i])

Reordered(c1, c2) ==
  /\ Len(c1) = Len(c2)
  /\ c1 # c2
  /\ \E f \in [DOMAIN c1 -> DOMAIN c1] :
       /\ \A i, j \in DOMAIN c1 : i # j => f[i] # f[j]
       /\ \A i \in DOMAIN c1 : c2[i] = c1[f[i]]

C27_WaitTillServingAsStated ==
  \A d \in Used :
    Running(desc[d]) =>
      /\ \E o \in ServingOutcomes : WaitTillServingCan(d, o)
      /\ \A o \in {x \in ServingOutcomes : WaitTillServingCan(d, x)} :
           LET r == WaitTillServingR(d, o)
           IN /\ SocketFileExists(desc[d]) => r.err = NoErr
              /\ ~SocketFileExists(desc[d]) => r.err = ErrTimeout
              /\ Running(r.desc[d])
              /\ Untouched(r)

\* C27 amended: WaitTillServing on a Running descriptor returns: with the error
\* of Port() and without polling when the first configured port does not
\* parse; otherwise with nil when the socket file of that port exists at a
\* poll and with a timeout error when it does not; in every case the
\* descriptor is Running and everything else is as it was.
C27_WaitTillServing ==
  \A d \in Used :
    Running(desc[d]) =>
      /\ \E o \in ServingOutcomes : WaitTillServingCan(d, o)
      /\ \A o \in {x \in ServingOutcomes : WaitTillServingCan(d, x)} :
           LET r == WaitTillServingR(d, o)
           IN /\ Port(desc[d]).err # NoErr => r.err = ErrAtoi
              /\ Port(desc[d]).err = NoErr /\ SocketFileExists(desc[d]) => r.err = NoErr
              /\ Port(desc[d]).err = NoErr /\ ~SocketFileExists(desc[d]) => r.err = ErrTimeout
              /\ Running(r.desc[d])
              /\ Untouched(r)

\* The postgres of a Running descriptor serves on the port Port() returns.
C27_Witness ==
  \E d \in Used :
    /\ Running(desc[d])
    /\ Port(desc[d]).err = NoErr
    /\ SocketFileExists(desc[d])

\* A sequence of characters that has a substring major.minor.patch.
HasVersion(s) ==
  \E i, a, b, j \in DOMAIN s :
    /\ i < a /\ a + 1 < b /\ b < j
    /\ s[a] = "." /\ s[b] = "."
    /\ \A k \in (i..j) \ {a, b} : IsDigit(s[k])

\* The outputs that have one, and the version each prints.
Versioned == {o \in Outputs : HasVersion(o)}

\* The calls of the template store on name n in this state.
FreezeCalls(n) ==
  {FreezeCall(x[1], n, x[2]) : x \in Used \X FreezeOutcomes}
FromTemplateCalls(n) ==
  {FromTemplateCall(n, x[1], x[2]) :
     x \in {y \in Dests \X BOOLEAN :
              newTemplate(n).err = NoErr => FromTemplateCan(newTemplate(n).id, y[1], y[2])}}

\* A result that leaves the template id as it is.
KeepsTemplate(r, id) ==
  /\ r.tplJson[id] = tplJson[id]
  /\ r.fs[data(id)] = fs[data(id)]
  /\ id \in r.tplRoot <=> id \in tplRoot

\* In every state: a probe that fails or prints no version makes every call fail
\* and change nothing; with a probe that prints version v, no call touches a
\* template of another version, FromTemplate succeeds only with the template of
\* v and returns a clone of it, and Delete removes the template of v.
C22_CallsOfProbedVersion ==
  \A n \in TplNames :
    IF ~probe.ok \/ probe.out \notin Versioned
      THEN \A r \in FreezeCalls(n) \cup FromTemplateCalls(n) \cup {DeleteCall(n)} :
             r.err # NoErr /\ Untouched(r)
    ELSE LET v == [name |-> n, version |-> Found[probe.out]]
         IN /\ \A id \in AllTplIds \ {v} :
                 \A r \in FreezeCalls(n) \cup FromTemplateCalls(n) \cup {DeleteCall(n)} :
                   KeepsTemplate(r, id)
            /\ \A r \in FromTemplateCalls(n) :
                 /\ ~tplJson[v].present => r.err # NoErr
                 /\ r.err = NoErr =>
                      /\ tplJson[v].present
                      /\ r.desc[r.new].Config = tplJson[v].Config
                      /\ r.fs[r.desc[r.new].DataDir] = fs[data(v)]
            /\ tplJson[v].present /\ Initialized(Unmarshal(tplJson[v])) =>
                 \A dest \in {p \in Dests : p = NoPath \/ ~Exists(p)} :
                   FromTemplateCan(v, dest, TRUE) =>
                     FromTemplateCall(n, dest, TRUE).err = NoErr
            /\ LET r == DeleteCall(n)
               IN r.err = NoErr /\ ~r.tplJson[v].present /\ ~r.fs[data(v)].exists

\* In every step: a template comes to exist only under the version the probe
\* prints, and ceases to exist only under it.
C22_StepsOfProbedVersion ==
  \A id \in AllTplIds :
    tplJson'[id] # tplJson[id] \/ fs'[data(id)] # fs[data(id)] =>
      probe.ok /\ probe.out \in Versioned /\ id.version = Found[probe.out]

\* C22: templates never cross server versions: a template frozen while the
\* probe reports v1 is found by FromTemplate and removed by Delete only while
\* the probe reports v1; under another version v2 FromTemplate on the same name
\* fails or returns the template frozen under v2, and Delete leaves the v1
\* template in place; a probe output without a substring major.minor.patch
\* makes Freeze, FromTemplate and Delete fail.
C22_TemplatesScopedByVersion ==
  [](C22_CallsOfProbedVersion) /\ [][C22_StepsOfProbedVersion]_vars

\* A template frozen under 9.3.5 exists while the probe prints another version,
\* under which no template was frozen.
C22_Witness ==
  \E n \in TplNames :
    LET v1 == [name |-> n, version |-> <<"9", ".", "3", ".", "5">>]
    IN /\ tplJson[v1].present /\ fs[data(v1)].exists
       /\ probe.ok /\ probe.out \in Versioned
       /\ Found[probe.out] # v1.version
       /\ ~tplJson[[name |-> n, version |-> Found[probe.out]]].present

\* C29: when Wait runs in one goroutine on a Running descriptor and Stop is
\* called in another, under every interleaving the handle is never used after
\* it was cleared, the exit of the process is waited for once, and when both
\* calls have returned the process was sent SIGTERM and Running() is false.
C29_ConcurrentWaitStop ==
  conc.overlap =>
    /\ ~conc.nilUse
    /\ conc.waits <= 1
    /\ conc.pc["W"] = "done" /\ conc.pc["S"] = "done" =>
         conc.signalled /\ conc.waits = 1 /\ ~Running(desc[conc.d])

\* C31: every temporary directory FromTemplate creates for an empty dest is
\* owned by the cluster it returns, as the directory its onStop removes, or is
\* gone when FromTemplate returns an error: a failed FromTemplate leaves no
\* temporary directory behind.
C31_NoTemporaryDirectoryLeft ==
  \A n \in TplNames, ok \in BOOLEAN :
    (newTemplate(n).err = NoErr => FromTemplateCan(newTemplate(n).id, NoPath, ok)) =>
      LET r == FromTemplateCall(n, NoPath, ok)
      IN /\ r.err # NoErr => r.tmpRoot = tmpRoot
         /\ r.err = NoErr =>
              /\ r.tmpRoot \ tmpRoot = {r.desc[r.new].onStop}
              /\ r.desc[r.new].DataDir = TmpClone(r.desc[r.new].onStop)

====
